---- MODULE Spec2Model ----
(***************************************************************************)
(* Model of the table data-operations engine of the Ignite 3 C++ thin      *)
(* client: ignite/client/detail/table/table_impl.cpp.                      *)
(*                                                                         *)
(* Two specifications share the variables below.                           *)
(*   Spec      the asynchronous pipeline of table_impl: public operations, *)
(*             the schema cache (m_schemas, m_latest_schema_version,       *)
(*             m_schemas_mutex) and the requests on the cluster            *)
(*             connection.                                                 *)
(*   SpecCodec the tuple codec: pack_tuple / write_tuple / read_tuple      *)
(*             applied to schemas, records and payloads drawn from bounded *)
(*             sets.                                                       *)
(***************************************************************************)
EXTENDS Integers, Sequences, FiniteSets, TLC

(***************************************************************************)
(* Bounds of the model.                                                    *)
(***************************************************************************)
\* Largest number of columns of a schema drawn for the codec.
MaxCols == 2
\* Largest schema version the cluster publishes.
MaxVersion == 2
\* Largest number of records of a batch and of entries of a batch response.
MaxTuples == 2

(***************************************************************************)
(* Results: a value or an error (ignite_error thrown / ignite_result).     *)
(***************************************************************************)
NoError == "none"

Ok(v) == [err |-> NoError, val |-> v]

Err(e) == [err |-> e, val |-> <<>>]

IsOk(r) == r.err = NoError

\* A call that throws ends its caller with the same error; otherwise the caller
\* goes on with the value the call returned.
AndThen(r, F(_)) == IF IsOk(r) THEN F(r.val) ELSE r

(***************************************************************************)
(* ignite_type and values.  A value is a tagged variant (std::any): its     *)
(* type and its payload, the payload of a number being the sequence of     *)
(* that one number and the payload of a string or a blob its bytes; the    *)
(* empty std::any is NoValue.                                              *)
(***************************************************************************)
SupportedTypes ==
    {"INT8", "INT16", "INT32", "INT64", "FLOAT", "DOUBLE", "UUID", "STRING", "BINARY"}

\* A type of ignite_type that none of the switches handles (IGNITE-18035).
UnsupportedTypes == {"DECIMAL"}

NoValue == [t |-> "NONE", v |-> <<>>]

Val(t, v) == [t |-> t, v |-> v]

Num(t, n) == [t |-> t, v |-> <<n>>]

\* std::nullopt given to the builder / returned by the parser.
NullOpt == [null |-> TRUE, bytes |-> <<>>]

Field(bytes) == [null |-> FALSE, bytes |-> bytes]

(***************************************************************************)
(* Fixed-width encodings of the binary tuple (two's complement,            *)
(* little-endian; UUID big-endian).                                        *)
(***************************************************************************)
RECURSIVE ToBytesLE(_, _)
ToBytesLE(v, w) ==
    IF w = 0 THEN <<>> ELSE <<v % 256>> \o ToBytesLE(v \div 256, w - 1)

RECURSIVE FromBytesLE(_)
FromBytesLE(b) ==
    IF Len(b) = 0 THEN 0
    ELSE IF Len(b) = 1 THEN (IF b[1] >= 128 THEN b[1] - 256 ELSE b[1])
    ELSE b[1] + 256 * FromBytesLE(Tail(b))

RECURSIVE Reverse(_)
Reverse(s) == IF Len(s) = 0 THEN <<>> ELSE Reverse(Tail(s)) \o <<Head(s)>>

TypeWidth(typ) ==
    CASE typ = "INT8" -> 1
      [] typ = "INT16" -> 2
      [] typ \in {"INT32", "FLOAT"} -> 4
      [] typ \in {"INT64", "DOUBLE"} -> 8
      [] typ = "UUID" -> 16
      [] OTHER -> 0

(***************************************************************************)
(* Column names: sequences of character codes, compared case-insensitively *)
(* by ignite_tuple.                                                        *)
(***************************************************************************)
ToLowerChar(c) == IF c >= 65 /\ c <= 90 THEN c + 32 ELSE c

ToLower(name) == [k \in 1..Len(name) |-> ToLowerChar(name[k])]

ToUpperChar(c) == IF c >= 97 /\ c <= 122 THEN c - 32 ELSE c

ToUpper(name) == [k \in 1..Len(name) |-> ToUpperChar(name[k])]

(***************************************************************************)
(* ignite_tuple: an ordered sequence of (name, value) pairs.               *)
(***************************************************************************)
\* ignite_tuple(capacity): an empty record.
ignite_tuple_new == <<>>

\* column_ordinal(name): zero-based ordinal of the field, -1 when absent.
column_ordinal(tuple, name) ==
    LET hits == {k \in 1..Len(tuple) : ToLower(tuple[k].name) = ToLower(name)}
    IN IF hits = {} THEN -1
       ELSE (CHOOSE k \in hits : \A j \in hits : k <= j) - 1

\* get<T>(index): the value at the ordinal, typed against T.
tuple_get_typed(tuple, index, typ) ==
    IF index < 0 \/ index >= Len(tuple) THEN Err("FieldNotFound")
    ELSE IF tuple[index + 1].value.t # typ THEN Err("TypeMismatch")
    ELSE Ok(tuple[index + 1].value.v)

\* get(name): the std::any stored under the name.
tuple_get(tuple, name) ==
    LET idx == column_ordinal(tuple, name)
    IN IF idx < 0 THEN Err("FieldNotFound") ELSE Ok(tuple[idx + 1].value)

\* set(name, value): insert or overwrite.
tuple_set(tuple, name, value) ==
    LET idx == column_ordinal(tuple, name)
    IN IF idx < 0 THEN Append(tuple, [name |-> name, value |-> value])
       ELSE [tuple EXCEPT ![idx + 1] = [name |-> tuple[idx + 1].name, value |-> value]]

(***************************************************************************)
(* binary_tuple_builder: claim pass, layout, append pass, build.           *)
(***************************************************************************)
builder_new(count) == [count |-> count, claimed |-> <<>>, fields |-> <<>>]

\* claim(size) / claim(std::nullopt): reserve space for the next element.
builder_claim(builder, size) == [builder EXCEPT !.claimed = Append(@, size)]

\* append(bytes) / append(std::nullopt): emit the next element.
builder_append(builder, field) == [builder EXCEPT !.fields = Append(@, field)]

\* build(): the binary tuple, one self-delimited element per field.
builder_build(builder) == builder.fields

(***************************************************************************)
(* claim_column, append_column, read_next_column.                          *)
(***************************************************************************)
claim_column(builder, typ, index, tuple) ==
    IF typ \in {"INT8", "INT16", "INT32", "INT64", "FLOAT", "DOUBLE", "UUID"}
    THEN AndThen(tuple_get_typed(tuple, index, typ),
                 LAMBDA v : Ok(builder_claim(builder, TypeWidth(typ))))
    ELSE IF typ \in {"STRING", "BINARY"}
    THEN AndThen(tuple_get_typed(tuple, index, typ),
                 LAMBDA v : Ok(builder_claim(builder, Len(v))))
    ELSE Err("TypeUnsupported")

append_column(builder, typ, index, tuple) ==
    IF typ \in {"INT8", "INT16", "INT32", "INT64", "FLOAT", "DOUBLE"}
    THEN AndThen(tuple_get_typed(tuple, index, typ),
                 LAMBDA v : Ok(builder_append(builder,
                                    Field(ToBytesLE(v[1], TypeWidth(typ))))))
    ELSE IF typ = "UUID"
    THEN AndThen(tuple_get_typed(tuple, index, typ),
                 LAMBDA v : Ok(builder_append(builder,
                                    Field(Reverse(ToBytesLE(v[1], TypeWidth(typ)))))))
    ELSE IF typ \in {"STRING", "BINARY"}
    THEN AndThen(tuple_get_typed(tuple, index, typ),
                 LAMBDA v : Ok(builder_append(builder, Field(v))))
    ELSE Err("TypeUnsupported")

\* binary_tuple_parser(count, data): one-pass parser over the tuple bytes.
parser_new(count, data) == [count |-> count, data |-> data, pos |-> 0]

\* get_next(): the next element, std::nullopt for an absent one.
parser_get_next(parser) ==
    IF parser.pos >= parser.count \/ parser.pos >= Len(parser.data)
    THEN Err("Protocol")
    ELSE Ok([field |-> parser.data[parser.pos + 1],
             parser |-> [parser EXCEPT !.pos = @ + 1]])

\* The value of an element that is present, read as the column's type.
read_column_value(typ, val) ==
    IF typ \in {"INT8", "INT16", "INT32", "INT64", "FLOAT", "DOUBLE"}
    THEN IF Len(val) > TypeWidth(typ) THEN Err("Protocol")
         ELSE Ok(Num(typ, FromBytesLE(val)))
    ELSE IF typ = "UUID"
    THEN IF Len(val) # TypeWidth(typ) THEN Err("Protocol")
         ELSE Ok(Num(typ, FromBytesLE(Reverse(val))))
    ELSE IF typ \in {"STRING", "BINARY"}
    THEN Ok(Val(typ, val))
    ELSE Err("TypeUnsupported")

\* Mutant: an element of zero bytes is taken for an absent one.
read_next_column_empty_is_absent(parser, typ) ==
    AndThen(parser_get_next(parser),
        LAMBDA n :
            IF n.field.null \/ Len(n.field.bytes) = 0
            THEN Ok([value |-> NoValue, parser |-> n.parser])
            ELSE AndThen(read_column_value(typ, n.field.bytes),
                         LAMBDA value : Ok([value |-> value, parser |-> n.parser])))

\* Mutant: an element of a column of an unknown type is returned as its bytes.
read_next_column_unknown_as_bytes(parser, typ) ==
    AndThen(parser_get_next(parser),
        LAMBDA n :
            IF n.field.null
            THEN Ok([value |-> NoValue, parser |-> n.parser])
            ELSE IF typ \notin SupportedTypes
            THEN Ok([value |-> Val("BINARY", n.field.bytes), parser |-> n.parser])
            ELSE AndThen(read_column_value(typ, n.field.bytes),
                         LAMBDA value : Ok([value |-> value, parser |-> n.parser])))

\* Returns the value read and the advanced parser.
read_next_column(parser, typ) ==
    AndThen(parser_get_next(parser),
        LAMBDA n :
            IF n.field.null
            THEN Ok([value |-> NoValue, parser |-> n.parser])
            ELSE AndThen(read_column_value(typ, n.field.bytes),
                         LAMBDA value : Ok([value |-> value, parser |-> n.parser])))

(***************************************************************************)
(* protocol::writer / protocol::reader: a MessagePack stream is the        *)
(* sequence of its items; a read of an item with another tag fails.        *)
(***************************************************************************)
writer_write(writer, item) == Append(writer, item)

reader_read(reader, tag) ==
    IF Len(reader) = 0 \/ reader[1].tag # tag THEN Err("Protocol")
    ELSE Ok([item |-> reader[1], reader |-> Tail(reader)])

\* bytes_for_bits(count)
bytes_for_bits(n) == (n + 7) \div 8

\* protocol::bitset_span over a caller's buffer: the set of its set bits.
bitset_span(bits, size) == [bits |-> bits, size |-> size]

bitset_set(span, i) == [span EXCEPT !.bits = @ \cup {i}]

SchemaCount(sch, key_only) ==
    IF key_only THEN sch.key_column_count ELSE Len(sch.columns)

(***************************************************************************)
(* pack_tuple                                                              *)
(***************************************************************************)
RECURSIVE pack_tuple_claim(_, _, _, _, _)
pack_tuple_claim(sch, tuple, count, i, builder) ==
    IF i >= count THEN Ok(builder)
    ELSE LET col == sch.columns[i + 1]
             col_idx == column_ordinal(tuple, col.name)
         IN AndThen(IF col_idx >= 0
                    THEN claim_column(builder, col.type, col_idx, tuple)
                    ELSE Ok(builder_claim(builder, -1)),
                    LAMBDA b : pack_tuple_claim(sch, tuple, count, i + 1, b))

RECURSIVE pack_tuple_append(_, _, _, _, _, _)
pack_tuple_append(sch, tuple, count, i, builder, no_value) ==
    IF i >= count THEN Ok([builder |-> builder, no_value |-> no_value])
    ELSE LET col == sch.columns[i + 1]
             col_idx == column_ordinal(tuple, col.name)
         IN IF col_idx >= 0
            THEN AndThen(append_column(builder, col.type, col_idx, tuple),
                         LAMBDA b : pack_tuple_append(sch, tuple, count, i + 1, b,
                                                      no_value))
            ELSE pack_tuple_append(sch, tuple, count, i + 1,
                                   builder_append(builder, NullOpt),
                                   bitset_set(no_value, i))

\* Returns the binary tuple and the no-value bitset as the call leaves it.
pack_tuple(sch, tuple, key_only, no_value) ==
    LET count == SchemaCount(sch, key_only)
    IN AndThen(pack_tuple_claim(sch, tuple, count, 0, builder_new(count)),
        LAMBDA claimed :
            AndThen(pack_tuple_append(sch, tuple, count, 0, claimed, no_value),
                LAMBDA a : Ok([data |-> builder_build(a.builder),
                               no_value |-> a.no_value])))

(***************************************************************************)
(* write_tuple, write_tuples, write_table_operation_header.                *)
(* stack: the bits that are set in the bytes alloca() hands out.           *)
(***************************************************************************)
write_tuple(writer, sch, tuple, key_only, stack) ==
    LET count == SchemaCount(sch, key_only)
        bytes_num == bytes_for_bits(count)
        no_value == bitset_span(stack \cap (0..(8 * bytes_num - 1)), bytes_num)
    IN AndThen(pack_tuple(sch, tuple, key_only, no_value),
        LAMBDA tuple_data :
            Ok(writer_write(
                writer_write(writer, [tag |-> "bitset", bitset |-> tuple_data.no_value]),
                [tag |-> "binary", data |-> tuple_data.data])))

RECURSIVE write_tuples_loop(_, _, _, _, _, _)
write_tuples_loop(writer, sch, tuples, key_only, stack, k) ==
    IF k > Len(tuples) THEN Ok(writer)
    ELSE AndThen(write_tuple(writer, sch, tuples[k], key_only, stack),
                 LAMBDA w : write_tuples_loop(w, sch, tuples, key_only, stack, k + 1))

\* Mutant: the payloads are written without the count before them.
write_tuples_no_count(writer, sch, tuples, key_only, stack) ==
    write_tuples_loop(writer, sch, tuples, key_only, stack, 1)

write_tuples(writer, sch, tuples, key_only, stack) ==
    write_tuples_loop(writer_write(writer, [tag |-> "int32", v |-> Len(tuples)]),
                      sch, tuples, key_only, stack, 1)

write_table_operation_header(writer, id, sch) ==
    writer_write(
        writer_write(
            writer_write(writer, [tag |-> "uuid", v |-> id]),
            [tag |-> "nil"]),
        [tag |-> "int32", v |-> sch.version])

(***************************************************************************)
(* read_tuple (both overloads), read_tuples_opt, read_tuples.              *)
(* Each returns the record(s) and the reader after the read.               *)
(***************************************************************************)
RECURSIVE read_tuple_loop(_, _, _, _, _)
read_tuple_loop(sch, columns_cnt, i, res, parser) ==
    IF i >= columns_cnt THEN Ok(res)
    ELSE LET column == sch.columns[i + 1]
         IN AndThen(read_next_column(parser, column.type),
                LAMBDA c : read_tuple_loop(sch, columns_cnt, i + 1,
                                tuple_set(res, column.name, c.value), c.parser))

\* read_tuple(reader, sch, key_only)
read_tuple(reader, sch, key_only) ==
    AndThen(reader_read(reader, "binary"),
        LAMBDA b :
            LET tuple_data == b.item.data
                columns_cnt == SchemaCount(sch, key_only)
            IN AndThen(read_tuple_loop(sch, columns_cnt, 0, ignite_tuple_new,
                                       parser_new(columns_cnt, tuple_data)),
                       LAMBDA res : Ok([tuple |-> res, reader |-> b.reader])))

RECURSIVE read_tuple_key_loop(_, _, _, _, _, _)
read_tuple_key_loop(sch, key, columns_cnt, i, res, parser) ==
    IF i >= columns_cnt THEN Ok(res)
    ELSE LET column == sch.columns[i + 1]
         IN IF i < sch.key_column_count
            THEN AndThen(tuple_get(key, column.name),
                    LAMBDA g : read_tuple_key_loop(sch, key, columns_cnt, i + 1,
                                    tuple_set(res, column.name, g), parser))
            ELSE AndThen(read_next_column(parser, column.type),
                    LAMBDA c : read_tuple_key_loop(sch, key, columns_cnt, i + 1,
                                    tuple_set(res, column.name, c.value), c.parser))

\* Mutant: the key columns are read from the response like the value columns.
read_tuple_key_all_from_response(reader, sch, key) == read_tuple(reader, sch, FALSE)

\* read_tuple(reader, sch, key): the response elides the key columns.
read_tuple_key(reader, sch, key) ==
    AndThen(reader_read(reader, "binary"),
        LAMBDA b :
            LET tuple_data == b.item.data
                columns_cnt == Len(sch.columns)
            IN AndThen(read_tuple_key_loop(sch, key, columns_cnt, 0, ignite_tuple_new,
                            parser_new(columns_cnt - sch.key_column_count, tuple_data)),
                       LAMBDA res : Ok([tuple |-> res, reader |-> b.reader])))

\* An absent std::optional<ignite_tuple>.
NoTuple == <<[name |-> <<>>, value |-> [t |-> "NULLOPT", v |-> <<>>]]>>

\* A null schema pointer.
NullSchema == [version |-> -1, key_column_count |-> 0, columns |-> <<>>]

RECURSIVE read_tuples_opt_loop(_, _, _, _, _, _)
read_tuples_opt_loop(reader, sch, key_only, count, i, res) ==
    IF i >= count THEN Ok([tuples |-> res, reader |-> reader])
    ELSE AndThen(reader_read(reader, "bool"),
            LAMBDA exist :
                IF ~exist.item.v
                THEN read_tuples_opt_loop(exist.reader, sch, key_only, count, i + 1,
                                          Append(res, NoTuple))
                ELSE AndThen(read_tuple(exist.reader, sch, key_only),
                        LAMBDA t : read_tuples_opt_loop(t.reader, sch, key_only, count,
                                        i + 1, Append(res, t.tuple))))

read_tuples_opt(reader, sch, key_only) ==
    IF sch = NullSchema THEN Ok([tuples |-> <<>>, reader |-> reader])
    ELSE AndThen(reader_read(reader, "int32"),
            LAMBDA c : read_tuples_opt_loop(c.reader, sch, key_only, c.item.v, 0, <<>>))

RECURSIVE read_tuples_loop(_, _, _, _, _, _)
read_tuples_loop(reader, sch, key_only, count, i, res) ==
    IF i >= count THEN Ok([tuples |-> res, reader |-> reader])
    ELSE AndThen(read_tuple(reader, sch, key_only),
            LAMBDA t : read_tuples_loop(t.reader, sch, key_only, count, i + 1,
                            Append(res, t.tuple)))

\* Mutant: the count is read before the schema pointer is tested.
read_tuples_count_first(reader, sch, key_only) ==
    AndThen(reader_read(reader, "int32"),
        LAMBDA c : IF sch = NullSchema THEN Ok([tuples |-> <<>>, reader |-> c.reader])
                   ELSE read_tuples_loop(c.reader, sch, key_only, c.item.v, 0, <<>>))

read_tuples(reader, sch, key_only) ==
    IF sch = NullSchema THEN Ok([tuples |-> <<>>, reader |-> reader])
    ELSE AndThen(reader_read(reader, "int32"),
            LAMBDA c : read_tuples_loop(c.reader, sch, key_only, c.item.v, 0, <<>>))

\* reader_func of the operations that resolve a schema from the response; sch
\* is what get_schema returned (NullSchema: the null pointer) and key the key or
\* record the operation was called with.  Returns the value for the callback
\* and the reader after the read.
reader_func_body(kind, reader, sch, key) ==
    IF kind \in {"get", "get_and_upsert", "get_and_replace", "get_and_remove"}
    THEN IF sch = NullSchema THEN Ok([tuple |-> NoTuple, reader |-> reader])
         ELSE read_tuple_key(reader, sch, key)
    ELSE IF kind = "get_all" THEN read_tuples_opt(reader, sch, FALSE)
    ELSE IF kind = "remove_all" THEN read_tuples(reader, sch, TRUE)
    ELSE read_tuples(reader, sch, FALSE)

(***************************************************************************)
(* State.                                                                  *)
(***************************************************************************)
VARIABLES
    m_schemas,                  \* table_impl::m_schemas: version -> schema pointer
    m_latest_schema_version,    \* table_impl::m_latest_schema_version
    m_schemas_mutex,            \* table_impl::m_schemas_mutex: its owner, or NoOwner
    ops,                        \* the public operations in progress
    codec                       \* the inputs and outputs of the tuple codec

vars == <<m_schemas, m_latest_schema_version, m_schemas_mutex, ops, codec>>

tableVars == <<m_schemas, m_latest_schema_version, m_schemas_mutex, ops>>

(***************************************************************************)
(* Inputs of the tuple codec.                                              *)
(***************************************************************************)
Column(name, type) == [name |-> name, type |-> type]

\* "id", "b", "u", "name", "blob", "d"
ColumnPool ==
    << Column(<<105, 100>>, "INT64"),
       Column(<<98>>, "INT8"),
       Column(<<117>>, "UUID"),
       Column(<<110, 97, 109, 101>>, "STRING"),
       Column(<<98, 108, 111, 98>>, "BINARY"),
       Column(<<100>>, "DECIMAL") >>

\* The values a record may hold for a column of the pool; the INT32 value of
\* "id" does not match the declared INT64.
ColumnValues(col) ==
    CASE col.type = "INT64" -> {Num("INT64", 42), Num("INT64", -1), Num("INT32", 42)}
      [] col.type = "INT8" -> {Num("INT8", -128), Num("INT8", 5)}
      [] col.type = "UUID" -> {Num("UUID", 258)}
      [] col.type = "STRING" -> {Val("STRING", <<>>), Val("STRING", <<97, 108>>)}
      [] col.type = "BINARY" -> {Val("BINARY", <<>>), Val("BINARY", <<0, 255>>)}
      [] OTHER -> {Num(col.type, 1)}

\* The strictly increasing index sequences of 1..n of length len.
RECURSIVE IncreasingSeqs(_, _)
IncreasingSeqs(n, len) ==
    IF len = 0 THEN {<<>>}
    ELSE {Append(s, k) : s \in IncreasingSeqs(n, len - 1), k \in 1..n}

IsIncreasing(s) == \A k \in 1..(Len(s) - 1) : s[k] < s[k + 1]

CodecColumnLists ==
    UNION { { [k \in 1..len |-> ColumnPool[s[k]]] :
                s \in {t \in IncreasingSeqs(Len(ColumnPool), len) : IsIncreasing(t)} } :
            len \in 1..MaxCols }

\* Every schema has at least one key column, and the key columns come first.
CodecSchemas ==
    { sch \in [version : {1}, key_column_count : 1..MaxCols, columns : CodecColumnLists] :
        sch.key_column_count <= Len(sch.columns) }

AllColumnValues == UNION {ColumnValues(ColumnPool[k]) : k \in 1..Len(ColumnPool)}

\* SelectSeq with the test inlined: the fields of the present columns.
RECURSIVE RecordOf(_, _, _, _)
RecordOf(cols, f, upper, k) ==
    IF k > Len(cols) THEN <<>>
    ELSE (IF f[k] = NoValue THEN <<>>
          ELSE <<[name |-> IF upper THEN ToUpper(cols[k].name) ELSE cols[k].name,
                  value |-> f[k]]>>)
         \o RecordOf(cols, f, upper, k + 1)

\* The records over a subset of the schema's columns, in schema order or in
\* reverse order, with the names as the schema spells them or in upper case.
CodecRecords(sch) ==
    { IF rev THEN Reverse(RecordOf(sch.columns, f, upper, 1))
             ELSE RecordOf(sch.columns, f, upper, 1) :
        f \in { g \in [1..Len(sch.columns) -> AllColumnValues \cup {NoValue}] :
                  \A k \in 1..Len(sch.columns) :
                      g[k] \in ColumnValues(sch.columns[k]) \cup {NoValue} },
        rev \in BOOLEAN, upper \in BOOLEAN }

\* The contents of the stack memory alloca() returns: all bits clear, or all set.
CodecStacks == { {}, 0..(8 * bytes_for_bits(MaxCols + 1) - 1) }

\* The elements of a response tuple.
CodecFields == {NullOpt, Field(<<7>>)}

RECURSIVE SeqsUpTo(_, _)
SeqsUpTo(S, n) ==
    IF n = 0 THEN {<<>>}
    ELSE LET shorter == SeqsUpTo(S, n - 1)
         IN shorter \cup {Append(s, x) : s \in {t \in shorter : Len(t) = n - 1}, x \in S}

CodecPayloads == SeqsUpTo(CodecFields, MaxCols)

Unset == Err("unset")

CodecInit ==
    \E sch \in CodecSchemas :
        \E rec \in CodecRecords(sch) :
            codec = [pc |-> "input", sch |-> sch, rec |-> rec, key_only |-> FALSE,
                     stack |-> {}, payload |-> <<>>, tuples |-> <<>>, count |-> 0,
                     entries |-> <<>>, kind |-> "none", resolved |-> NullSchema,
                     packed |-> Unset, out |-> Unset, res |-> Unset]

(***************************************************************************)
(* Steps of the codec.                                                     *)
(***************************************************************************)
\* write_tuple(writer, sch, rec, key_only) on a fresh writer; pack_tuple on the
\* caller's bitset as write_tuple hands it over.
CodecWriteTuple(key_only, stack) ==
    /\ codec.pc = "input"
    /\ codec' = [codec EXCEPT
            !.pc = "written",
            !.key_only = key_only,
            !.stack = stack,
            !.packed = pack_tuple(codec.sch, codec.rec, key_only,
                          bitset_span(stack \cap
                              (0..(8 * bytes_for_bits(SchemaCount(codec.sch, key_only)) - 1)),
                              bytes_for_bits(SchemaCount(codec.sch, key_only)))),
            !.out = write_tuple(<<>>, codec.sch, codec.rec, key_only, stack)]
    /\ UNCHANGED tableVars

\* read_tuple(reader, sch, key_only) with the reader at the start of what
\* write_tuple wrote.
CodecReadStream ==
    /\ codec.pc = "written"
    /\ IsOk(codec.out)
    /\ codec' = [codec EXCEPT
            !.pc = "read_stream",
            !.res = read_tuple(codec.out.val, codec.sch, codec.key_only)]
    /\ UNCHANGED tableVars

\* read_tuple(reader, sch, key_only) with the reader at the binary tuple that
\* write_tuple wrote after the no-value bitset.
CodecReadBlob ==
    /\ codec.pc = "written"
    /\ IsOk(codec.out)
    /\ codec' = [codec EXCEPT
            !.pc = "read_blob",
            !.res = read_tuple(Tail(codec.out.val), codec.sch, codec.key_only)]
    /\ UNCHANGED tableVars

\* read_tuple(reader, sch, key) on a response payload, rec being the key.
CodecReadTupleKey(payload) ==
    /\ codec.pc = "input"
    /\ codec' = [codec EXCEPT
            !.pc = "read_key",
            !.payload = payload,
            !.res = read_tuple_key(<<[tag |-> "binary", data |-> payload]>>,
                                   codec.sch, codec.rec)]
    /\ UNCHANGED tableVars

\* The records of a batch of n records: the record and, at the even
\* positions, the record without its last field.
CodecTuples(rec, n) ==
    [k \in 1..n |-> IF k % 2 = 1 THEN rec ELSE SubSeq(rec, 1, Len(rec) - 1)]

\* write_tuples(writer, sch, tuples, key_only) on a fresh writer.
CodecWriteTuples(n, key_only, stack) ==
    /\ codec.pc = "input"
    /\ codec' = [codec EXCEPT
            !.pc = "written_tuples",
            !.key_only = key_only,
            !.stack = stack,
            !.tuples = CodecTuples(codec.rec, n),
            !.out = write_tuples(<<>>, codec.sch, CodecTuples(codec.rec, n), key_only,
                                 stack)]
    /\ UNCHANGED tableVars

\* The entries of a batch response: no tuple, or a tuple of n elements that
\* are all absent or all the byte 7.
CodecEntries(n) ==
    {[exists |-> FALSE, data |-> <<>>]}
        \cup {[exists |-> TRUE, data |-> [k \in 1..n |-> f]] : f \in CodecFields}

\* The items of the entries on the wire; with_flags: each entry is preceded
\* by its "exists" flag.
RECURSIVE EntryItems(_, _)
EntryItems(entries, with_flags) ==
    IF Len(entries) = 0 THEN <<>>
    ELSE (IF with_flags THEN <<[tag |-> "bool", v |-> Head(entries).exists]>> ELSE <<>>)
         \o (IF Head(entries).exists
             THEN <<[tag |-> "binary", data |-> Head(entries).data]>> ELSE <<>>)
         \o EntryItems(Tail(entries), with_flags)

\* A batch response: the count, then the entries.
ResponseStream(count, entries, with_flags) ==
    <<[tag |-> "int32", v |-> count]>> \o EntryItems(entries, with_flags)

\* The entries of the responses: up to MaxTuples entries of tuples of the
\* serialized columns.
CodecResponses(sch, key_only) ==
    SeqsUpTo(CodecEntries(SchemaCount(sch, key_only)), MaxTuples)

\* read_tuples_opt(reader, sch, key_only) on a response of any count and any
\* entries; what the response holds does not depend on the record.
CodecReadTuplesOpt(key_only) ==
    /\ codec.pc = "input"
    /\ codec.rec = <<>>
    /\ \E count \in 0..MaxTuples, entries \in CodecResponses(codec.sch, key_only) :
        codec' = [codec EXCEPT
            !.pc = "read_tuples_opt",
            !.key_only = key_only,
            !.count = count,
            !.entries = entries,
            !.res = read_tuples_opt(ResponseStream(count, entries, TRUE), codec.sch,
                                    key_only)]
    /\ UNCHANGED tableVars

\* read_tuples(reader, sch, key_only) on a response whose entries all exist.
CodecReadTuples(key_only) ==
    /\ codec.pc = "input"
    /\ codec.rec = <<>>
    /\ \E count \in 0..MaxTuples, entries \in CodecResponses(codec.sch, key_only) :
        /\ \A k \in 1..Len(entries) : entries[k].exists
        /\ codec' = [codec EXCEPT
                !.pc = "read_tuples",
                !.key_only = key_only,
                !.count = count,
                !.entries = entries,
                !.res = read_tuples(ResponseStream(count, entries, FALSE), codec.sch,
                                    key_only)]
    /\ UNCHANGED tableVars

\* The operations whose reader_func resolves the schema of the response.
SchemaReaderKinds ==
    {"get", "get_and_upsert", "get_and_replace", "get_and_remove", "get_all",
     "insert_all", "remove_all", "remove_all_exact"}

\* The body of the response of an operation: one tuple, or a batch, with
\* flags for get_all.
ResponseOf(kind, count, entries) ==
    IF kind \in {"get", "get_and_upsert", "get_and_replace", "get_and_remove"}
    THEN EntryItems(entries, FALSE)
    ELSE ResponseStream(count, entries, kind = "get_all")

\* reader_func of an operation on a response, after get_schema returned
\* resolved, the schema or the null pointer; the record is the key or record
\* the operation was called with.
CodecReaderFunc(kind) ==
    /\ codec.pc = "input"
    /\ codec.rec = <<>>
    /\ \E resolved \in {NullSchema, codec.sch}, count \in 0..MaxTuples,
          entries \in CodecResponses(codec.sch, FALSE) :
        codec' = [codec EXCEPT
            !.pc = "reader_func",
            !.kind = kind,
            !.resolved = resolved,
            !.count = count,
            !.entries = entries,
            !.res = reader_func_body(kind, ResponseOf(kind, count, entries), resolved,
                                     codec.rec)]
    /\ UNCHANGED tableVars

CodecNext ==
    \/ \E key_only \in BOOLEAN, stack \in CodecStacks : CodecWriteTuple(key_only, stack)
    \/ \E n \in 0..MaxTuples, key_only \in BOOLEAN, stack \in CodecStacks :
        CodecWriteTuples(n, key_only, stack)
    \/ \E key_only \in BOOLEAN : CodecReadTuplesOpt(key_only)
    \/ \E key_only \in BOOLEAN : CodecReadTuples(key_only)
    \/ \E kind \in SchemaReaderKinds : CodecReaderFunc(kind)
    \/ CodecReadStream
    \/ CodecReadBlob
    \/ \E payload \in CodecPayloads : CodecReadTupleKey(payload)

(***************************************************************************)
(* The table and its callers.                                              *)
(***************************************************************************)
\* Two callers use the table concurrently, one public operation each: the
\* main caller calls any operation with any arguments, the other caller gets or
\* upserts a record of the table outside a transaction.
MainCaller == "main"

OtherCaller == "other"

Ops == {MainCaller, OtherCaller}

NoOwner == "none"

\* A null std::shared_ptr<schema>.
NullPtr == -1

\* No entry under a key of m_schemas.
NoEntry == -2

\* The versions the cluster publishes.
Versions == 1..MaxVersion

OpKinds ==
    {"get", "get_all", "upsert", "upsert_all", "get_and_upsert", "insert", "insert_all",
     "replace", "replace_exact", "get_and_replace", "remove", "remove_exact",
     "get_and_remove", "remove_all", "remove_all_exact"}

\* The schemas the cluster publishes for the table: "id" (key), "name", and
\* from version 2 on a column "d" of a type the client does not support.
TableSchema(v) ==
    [version |-> v, key_column_count |-> 1,
     columns |-> IF v <= 1 THEN <<ColumnPool[1], ColumnPool[4]>>
                 ELSE <<ColumnPool[1], ColumnPool[4], ColumnPool[6]>>]

\* The records the callers pass: {id: 42, name: "al"} and {id: 42, d: 1}.
NameRecord ==
    << [name |-> ColumnPool[1].name, value |-> Num("INT64", 42)],
       [name |-> ColumnPool[4].name, value |-> Val("STRING", <<97, 108>>)] >>

DecimalRecord ==
    << [name |-> ColumnPool[1].name, value |-> Num("INT64", 42)],
       [name |-> ColumnPool[6].name, value |-> Num("DECIMAL", 1)] >>

OpRecords == {NameRecord, DecimalRecord}

\* The table's id.
TableId == 7

\* client_operation of each public operation.
Opcode(kind) ==
    CASE kind = "get" -> "TUPLE_GET"
      [] kind = "get_all" -> "TUPLE_GET_ALL"
      [] kind = "upsert" -> "TUPLE_UPSERT"
      [] kind = "upsert_all" -> "TUPLE_UPSERT_ALL"
      [] kind = "get_and_upsert" -> "TUPLE_GET_AND_UPSERT"
      [] kind = "insert" -> "TUPLE_INSERT"
      [] kind = "insert_all" -> "TUPLE_INSERT_ALL"
      [] kind = "replace" -> "TUPLE_REPLACE"
      [] kind = "replace_exact" -> "TUPLE_REPLACE_EXACT"
      [] kind = "get_and_replace" -> "TUPLE_GET_AND_REPLACE"
      [] kind = "remove" -> "TUPLE_DELETE"
      [] kind = "remove_exact" -> "TUPLE_DELETE_EXACT"
      [] kind = "get_and_remove" -> "TUPLE_GET_AND_DELETE"
      [] kind = "remove_all" -> "TUPLE_DELETE_ALL"
      [] kind = "remove_all_exact" -> "TUPLE_DELETE_ALL_EXACT"

\* Mutant: the tuple is written first and the operation header after it.
writer_func_header_last(kind, id, sch, rec, new_rec) ==
    AndThen(write_tuple(<<>>, sch, rec, FALSE, {}),
            LAMBDA w : Ok(write_table_operation_header(w, id, sch)))

\* Mutant: every operation serializes all columns of its record.
writer_func_all_columns(kind, id, sch, rec, new_rec) ==
    LET hdr == write_table_operation_header(<<>>, id, sch)
    IN CASE kind \in {"get_all", "remove_all", "upsert_all", "insert_all",
                      "remove_all_exact"} ->
                write_tuples(hdr, sch, <<rec>>, FALSE, {})
         [] kind = "replace_exact" ->
                AndThen(write_tuple(hdr, sch, rec, FALSE, {}),
                        LAMBDA first : write_tuple(first, sch, new_rec, FALSE, {}))
         [] OTHER -> write_tuple(hdr, sch, rec, FALSE, {})

\* writer_func of each public operation: the header, then the tuple(s);
\* new_rec is the second record of replace_async(tx, record, new_record).
writer_func(kind, id, sch, rec, new_rec) ==
    LET hdr == write_table_operation_header(<<>>, id, sch)
    IN CASE kind \in {"get", "remove", "get_and_remove"} ->
                write_tuple(hdr, sch, rec, TRUE, {})
         [] kind \in {"get_all", "remove_all"} ->
                write_tuples(hdr, sch, <<rec>>, TRUE, {})
         [] kind \in {"upsert", "get_and_upsert", "insert", "replace", "get_and_replace",
                      "remove_exact"} ->
                write_tuple(hdr, sch, rec, FALSE, {})
         [] kind \in {"upsert_all", "insert_all", "remove_all_exact"} ->
                write_tuples(hdr, sch, <<rec>>, FALSE, {})
         [] kind = "replace_exact" ->
                AndThen(write_tuple(hdr, sch, rec, FALSE, {}),
                        LAMBDA first : write_tuple(first, sch, new_rec, FALSE, {}))

\* What reader_func of each public operation decodes.
ReaderOf(kind) ==
    CASE kind \in {"upsert", "upsert_all"} -> "void"
      [] kind \in {"insert", "replace", "replace_exact", "remove", "remove_exact"} -> "bool"
      [] kind \in {"get", "get_and_upsert", "get_and_replace", "get_and_remove"} -> "tuple"
      [] kind = "get_all" -> "tuples_opt"
      [] kind \in {"insert_all", "remove_all", "remove_all_exact"} -> "tuples"

\* An operation: its arguments, its position, what the connection holds for it
\* (map: the SCHEMAS_GET reply as received, reply: the entries still to read,
\* request: the data request as written) and the events it went through.
IdleOp ==
    [pc |-> "idle", kind |-> "none", tx |-> FALSE, rec |-> <<>>, new_rec |-> <<>>,
     snapshot |-> NullPtr, map |-> <<>>, reply |-> <<>>, last |-> NullPtr,
     adding |-> NullPtr, sch |-> NullPtr, schemas_get |-> 0, data_rpc |-> 0,
     opcode |-> "none", version |-> NullPtr, request |-> <<>>, callbacks |-> 0,
     result |-> "none", value |-> "none", thrown |-> "none", trace |-> <<>>]

TableInit ==
    /\ m_schemas = [v \in Versions |-> NoEntry]
    /\ m_latest_schema_version = -1
    /\ m_schemas_mutex = NoOwner
    /\ ops = [o \in Ops |-> IdleOp]

CodecIdle ==
    [pc |-> "off", sch |-> NullSchema, rec |-> <<>>, key_only |-> FALSE,
     stack |-> {}, payload |-> <<>>, tuples |-> <<>>, count |-> 0, entries |-> <<>>,
     kind |-> "none", resolved |-> NullSchema,
     packed |-> Unset, out |-> Unset, res |-> Unset]

Init == TableInit /\ codec = CodecIdle

SpecCodecInit ==
    /\ CodecInit
    /\ m_schemas = [v \in Versions |-> NoEntry]
    /\ m_latest_schema_version = -1
    /\ m_schemas_mutex = NoOwner
    /\ ops = [o \in Ops |-> IdleOp]

(***************************************************************************)
(* Helpers of the pipeline.                                                *)
(***************************************************************************)
\* The user callback is invoked with a result.
Complete(op, result) ==
    [op EXCEPT !.pc = "done", !.callbacks = @ + 1, !.result = result,
               !.trace = Append(@, "callback")]

\* cluster_connection::perform_request / perform_request_wr: runs the writer;
\* a writer that fails ends the operation with its error, nothing is sent.
perform_request(op, opcode, written) ==
    IF IsOk(written)
    THEN [op EXCEPT !.pc = "data_wait", !.data_rpc = @ + 1, !.opcode = opcode,
                    !.version = written.val[3].v, !.request = written.val,
                    !.trace = @ \o <<"written", "sent">>]
    ELSE Complete(op, written.err)

\* The body every public operation gives to with_latest_schema_async.
body(op, sch) ==
    perform_request([op EXCEPT !.sch = sch.version], Opcode(op.kind),
                    writer_func(op.kind, TableId, sch, op.rec, op.new_rec))

\* table_impl::with_latest_schema_async, the continuation of
\* get_latest_schema_async: res is the schema pointer or an error.
with_latest_schema_async(op, res) ==
    IF ~IsOk(res) THEN Complete(op, res.err)
    ELSE IF res.val = NullPtr THEN [op EXCEPT !.pc = "null_deref"]
    ELSE body(op, TableSchema(res.val))

\* table_impl::add_schema under m_schemas_mutex: the latest version is raised,
\* never lowered, and the schema is stored under its version.
\* Mutant: the latest version is overwritten by whatever version is added.
add_schema_latest_overwrite(latest, version) == version

add_schema_latest(latest, version) == IF latest < version THEN version ELSE latest

add_schema_store(schemas, version) == [schemas EXCEPT ![version] = version]

\* Mutant: the transaction handle is not checked.
transactions_not_implemented_unchecked(tx) == Ok(TRUE)

transactions_not_implemented(tx) ==
    IF tx THEN Err("TransactionsUnsupported") ELSE Ok(TRUE)

\* load_schema_async: SCHEMAS_GET is handed to the connection.
load_schema_async(op) ==
    [op EXCEPT !.pc = "schema_wait", !.schemas_get = @ + 1,
               !.trace = Append(@, "schemas_get")]

\* Mutant: the schema is loaded from the cluster whatever the snapshot is.
get_latest_schema_async_always_loads(op) ==
    load_schema_async([op EXCEPT !.snapshot = m_latest_schema_version])

\* get_latest_schema_async up to the snapshot of m_latest_schema_version.
get_latest_schema_async(op) ==
    LET latest_schema_version == m_latest_schema_version
    IN IF latest_schema_version >= 0
       THEN [op EXCEPT !.pc = "lookup", !.snapshot = latest_schema_version]
       ELSE load_schema_async([op EXCEPT !.snapshot = latest_schema_version])

(***************************************************************************)
(* The public operations: the transaction gate, then the latest schema.    *)
(***************************************************************************)
PublicOp(o, kind, tx, rec, new_rec) ==
    /\ ops[o].pc = "idle"
    /\ LET op == [ops[o] EXCEPT !.kind = kind, !.tx = tx, !.rec = rec,
                                !.new_rec = new_rec]
           gate == transactions_not_implemented(tx)
       IN ops' = [ops EXCEPT ![o] =
                    IF ~IsOk(gate) THEN [op EXCEPT !.pc = "thrown", !.thrown = gate.err]
                    ELSE get_latest_schema_async(op)]
    /\ UNCHANGED <<m_schemas, m_latest_schema_version, m_schemas_mutex, codec>>

get_async(o, tx, key) == PublicOp(o, "get", tx, key, <<>>)

get_all_async(o, tx, key) == PublicOp(o, "get_all", tx, key, <<>>)

upsert_async(o, tx, rec) == PublicOp(o, "upsert", tx, rec, <<>>)

upsert_all_async(o, tx, rec) == PublicOp(o, "upsert_all", tx, rec, <<>>)

get_and_upsert_async(o, tx, rec) == PublicOp(o, "get_and_upsert", tx, rec, <<>>)

insert_async(o, tx, rec) == PublicOp(o, "insert", tx, rec, <<>>)

insert_all_async(o, tx, rec) == PublicOp(o, "insert_all", tx, rec, <<>>)

replace_async(o, tx, rec) == PublicOp(o, "replace", tx, rec, <<>>)

replace_exact_async(o, tx, rec, new_rec) == PublicOp(o, "replace_exact", tx, rec, new_rec)

get_and_replace_async(o, tx, rec) == PublicOp(o, "get_and_replace", tx, rec, <<>>)

remove_async(o, tx, key) == PublicOp(o, "remove", tx, key, <<>>)

remove_exact_async(o, tx, rec) == PublicOp(o, "remove_exact", tx, rec, <<>>)

get_and_remove_async(o, tx, key) == PublicOp(o, "get_and_remove", tx, key, <<>>)

remove_all_async(o, tx, key) == PublicOp(o, "remove_all", tx, key, <<>>)

remove_all_exact_async(o, tx, rec) == PublicOp(o, "remove_all_exact", tx, rec, <<>>)

(***************************************************************************)
(* get_latest_schema_async, cache hit: the lookup under m_schemas_mutex,   *)
(* then the callback, which runs the body.                                 *)
(***************************************************************************)
\* Mutant: the lookup does not take m_schemas_mutex.
LookupUnlocked(o) ==
    /\ ops[o].pc = "lookup"
    /\ LET found == m_schemas[ops[o].snapshot]
           schema == IF found = NoEntry THEN NullPtr ELSE found
       IN /\ m_schemas' = [m_schemas EXCEPT ![ops[o].snapshot] = schema]
          /\ ops' = [ops EXCEPT ![o] = with_latest_schema_async(ops[o], Ok(schema))]
    /\ UNCHANGED <<m_latest_schema_version, m_schemas_mutex, codec>>

Lookup(o) ==
    /\ ops[o].pc = "lookup"
    /\ m_schemas_mutex = NoOwner
    /\ LET found == m_schemas[ops[o].snapshot]
           schema == IF found = NoEntry THEN NullPtr ELSE found
       IN /\ m_schemas' = [m_schemas EXCEPT ![ops[o].snapshot] = schema]
          /\ ops' = [ops EXCEPT ![o] = with_latest_schema_async(ops[o], Ok(schema))]
    /\ UNCHANGED <<m_latest_schema_version, m_schemas_mutex, codec>>

(***************************************************************************)
(* SCHEMAS_GET on the connection.                                          *)
(***************************************************************************)
\* The reply maps of the cluster: distinct versions, in any order.
ReplyMaps ==
    {s \in SeqsUpTo(Versions, MaxVersion) : \A i, j \in 1..Len(s) : i # j => s[i] # s[j]}

\* Mutant: the failure of the request is dropped, the callback is not invoked.
LoadFailDropsError(o) ==
    /\ ops[o].pc = "schema_wait"
    /\ ops' = [ops EXCEPT ![o] = [ops[o] EXCEPT !.pc = "done"]]
    /\ UNCHANGED <<m_schemas, m_latest_schema_version, m_schemas_mutex, codec>>

\* The request fails on the connection.
LoadFail(o) ==
    /\ ops[o].pc = "schema_wait"
    /\ ops' = [ops EXCEPT ![o] = with_latest_schema_async(ops[o], Err("Transport"))]
    /\ UNCHANGED <<m_schemas, m_latest_schema_version, m_schemas_mutex, codec>>

\* Mutant: the callback is given the first schema of the reply as soon as the
\* reply arrives, before the reader has decoded it.
LoadReplyEarly(o, reply) ==
    /\ ops[o].pc = "schema_wait"
    /\ ops' = [ops EXCEPT ![o] =
                IF Len(reply) = 0
                THEN with_latest_schema_async(ops[o], Err("SchemaMissing"))
                ELSE with_latest_schema_async([ops[o] EXCEPT !.map = reply,
                                                                !.reply = reply],
                                              Ok(Head(reply)))]
    /\ UNCHANGED <<m_schemas, m_latest_schema_version, m_schemas_mutex, codec>>

\* Mutant: an empty map is not rejected, the reader returns the null `last`.
LoadReplyEmptyIsNull(o, reply) ==
    /\ ops[o].pc = "schema_wait"
    /\ LET op == [ops[o] EXCEPT !.trace = Append(@, "schemas_reply")]
       IN ops' = [ops EXCEPT ![o] =
                    IF Len(reply) = 0
                    THEN with_latest_schema_async(op, Ok(NullPtr))
                    ELSE [op EXCEPT !.pc = "schema_read", !.map = reply,
                                    !.reply = reply]]
    /\ UNCHANGED <<m_schemas, m_latest_schema_version, m_schemas_mutex, codec>>

\* reader_func of load_schema_async starts on a reply: read_map_size.
LoadReply(o, reply) ==
    /\ ops[o].pc = "schema_wait"
    /\ LET op == [ops[o] EXCEPT !.trace = Append(@, "schemas_reply")]
       IN ops' = [ops EXCEPT ![o] =
                    IF Len(reply) = 0
                    THEN with_latest_schema_async(op, Err("SchemaMissing"))
                    ELSE [op EXCEPT !.pc = "schema_read", !.map = reply,
                                    !.reply = reply]]
    /\ UNCHANGED <<m_schemas, m_latest_schema_version, m_schemas_mutex, codec>>

\* Mutant: adding a schema sets the latest version to the version added, also
\* when the latest version is higher.
LoadReadEntryAssignsLatest(o, wellformed) ==
    /\ ops[o].pc = "schema_read"
    /\ IF ~wellformed
       THEN /\ ops' = [ops EXCEPT ![o] =
                        with_latest_schema_async(ops[o], Err("Protocol"))]
            /\ UNCHANGED <<m_latest_schema_version, m_schemas_mutex>>
       ELSE /\ m_schemas_mutex = NoOwner
            /\ m_schemas_mutex' = o
            /\ m_latest_schema_version' = Head(ops[o].reply)
            /\ ops' = [ops EXCEPT ![o] =
                        [ops[o] EXCEPT !.pc = "schema_add", !.last = Head(ops[o].reply),
                                       !.adding = Head(ops[o].reply)]]
    /\ UNCHANGED <<m_schemas, codec>>

\* One entry of read_map_raw: schema::read, then add_schema takes the mutex
\* and raises the latest version.
LoadReadEntry(o, wellformed) ==
    /\ ops[o].pc = "schema_read"
    /\ IF ~wellformed
       THEN /\ ops' = [ops EXCEPT ![o] =
                        with_latest_schema_async(ops[o], Err("Protocol"))]
            /\ UNCHANGED <<m_latest_schema_version, m_schemas_mutex>>
       ELSE /\ m_schemas_mutex = NoOwner
            /\ m_schemas_mutex' = o
            /\ m_latest_schema_version' =
                    add_schema_latest(m_latest_schema_version, Head(ops[o].reply))
            /\ ops' = [ops EXCEPT ![o] =
                        [ops[o] EXCEPT !.pc = "schema_add", !.last = Head(ops[o].reply),
                                       !.adding = Head(ops[o].reply)]]
    /\ UNCHANGED <<m_schemas, codec>>

\* Mutant: after the last entry the callback is given the first entry of the
\* reply.
LoadAddSchemaDeliversFirst(o) ==
    /\ ops[o].pc = "schema_add"
    /\ m_schemas_mutex = o
    /\ m_schemas' = add_schema_store(m_schemas, ops[o].adding)
    /\ m_schemas_mutex' = NoOwner
    /\ LET op == [ops[o] EXCEPT !.reply = Tail(@), !.adding = NullPtr]
       IN ops' = [ops EXCEPT ![o] =
                    IF Len(op.reply) = 0
                    THEN with_latest_schema_async(op, Ok(Head(op.map)))
                    ELSE [op EXCEPT !.pc = "schema_read"]]
    /\ UNCHANGED <<m_latest_schema_version, codec>>

\* Mutant: storing a schema drops the schemas stored before it.
LoadAddSchemaReplacesCache(o) ==
    /\ ops[o].pc = "schema_add"
    /\ m_schemas_mutex = o
    /\ m_schemas' = add_schema_store([v \in Versions |-> NoEntry], ops[o].adding)
    /\ m_schemas_mutex' = NoOwner
    /\ LET op == [ops[o] EXCEPT !.reply = Tail(@), !.adding = NullPtr]
       IN ops' = [ops EXCEPT ![o] =
                    IF Len(op.reply) = 0
                    THEN with_latest_schema_async(op, Ok(op.last))
                    ELSE [op EXCEPT !.pc = "schema_read"]]
    /\ UNCHANGED <<m_latest_schema_version, codec>>

\* add_schema stores the schema and releases the mutex; after the last entry
\* the reader returns and the callback runs the body.
LoadAddSchema(o) ==
    /\ ops[o].pc = "schema_add"
    /\ m_schemas_mutex = o
    /\ m_schemas' = add_schema_store(m_schemas, ops[o].adding)
    /\ m_schemas_mutex' = NoOwner
    /\ LET op == [ops[o] EXCEPT !.reply = Tail(@), !.adding = NullPtr]
       IN ops' = [ops EXCEPT ![o] =
                    IF Len(op.reply) = 0
                    THEN with_latest_schema_async(op, Ok(op.last))
                    ELSE [op EXCEPT !.pc = "schema_read"]]
    /\ UNCHANGED <<m_latest_schema_version, codec>>

(***************************************************************************)
(* The data request on the connection.                                     *)
(***************************************************************************)
\* Mutant: a failed request is sent again.
DataFailRetries(o) ==
    /\ ops[o].pc = "data_wait"
    /\ ops' = [ops EXCEPT ![o] = [ops[o] EXCEPT !.data_rpc = @ + 1]]
    /\ UNCHANGED <<m_schemas, m_latest_schema_version, m_schemas_mutex, codec>>

\* Mutant: the failure is reported to the callback and the request stays
\* outstanding, so that a later completion reports again.
DataFailKeepsWaiting(o) ==
    /\ ops[o].pc = "data_wait"
    /\ ops' = [ops EXCEPT ![o] = [Complete(ops[o], "Transport") EXCEPT !.pc = "data_wait"]]
    /\ UNCHANGED <<m_schemas, m_latest_schema_version, m_schemas_mutex, codec>>

\* The request fails or is cancelled on the connection.
DataFail(o) ==
    /\ ops[o].pc = "data_wait"
    /\ ops' = [ops EXCEPT ![o] = Complete(ops[o], "Transport")]
    /\ UNCHANGED <<m_schemas, m_latest_schema_version, m_schemas_mutex, codec>>

\* reader_func after get_schema: decodes the body with the schema sch;
\* body_ok tells whether the body of the response is well formed.
reader_func(op, sch, body_ok) ==
    LET reader == ReaderOf(op.kind)
        resolved == [op EXCEPT !.trace = Append(@, "get_schema")]
    IN IF sch = NullPtr
       THEN Complete([resolved EXCEPT
                        !.value = IF reader = "tuple" THEN "nullopt" ELSE "empty",
                        !.trace = Append(@, "read")],
                     "ok")
       ELSE IF ~body_ok THEN Complete(resolved, "Protocol")
       ELSE Complete([resolved EXCEPT !.value = reader, !.trace = Append(@, "read")],
                     "ok")

\* A reply arrives.  perform_request_wr has no reader; the bool readers read
\* one bool; the others first resolve the schema reference ref of the
\* response (get_schema), which adds a schema the cache does not hold yet.
DataReply(o, ref, body_ok) ==
    /\ ops[o].pc = "data_wait"
    /\ LET reader == ReaderOf(ops[o].kind)
       IN IF reader = "void"
          THEN /\ ops' = [ops EXCEPT ![o] = Complete([ops[o] EXCEPT !.value = "void"], "ok")]
               /\ UNCHANGED <<m_latest_schema_version, m_schemas_mutex>>
          ELSE IF reader = "bool"
          THEN /\ ops' = [ops EXCEPT ![o] =
                            IF body_ok
                            THEN Complete([ops[o] EXCEPT !.value = "bool",
                                                         !.trace = Append(@, "read")],
                                          "ok")
                            ELSE Complete(ops[o], "Protocol")]
               /\ UNCHANGED <<m_latest_schema_version, m_schemas_mutex>>
          ELSE /\ m_schemas_mutex = NoOwner
               /\ IF ref # NullPtr /\ m_schemas[ref] = NoEntry
                  THEN /\ m_schemas_mutex' = o
                       /\ m_latest_schema_version' =
                                add_schema_latest(m_latest_schema_version, ref)
                       /\ ops' = [ops EXCEPT ![o] =
                                    [ops[o] EXCEPT !.pc = "data_add", !.adding = ref]]
                  ELSE /\ ops' = [ops EXCEPT ![o] =
                            reader_func(ops[o],
                                        IF ref = NullPtr THEN NullPtr ELSE m_schemas[ref],
                                        body_ok)]
                       /\ UNCHANGED <<m_latest_schema_version, m_schemas_mutex>>
    /\ UNCHANGED <<m_schemas, codec>>

\* get_schema stores the schema learned from the response, then the reader
\* decodes the body.
DataAddSchema(o, body_ok) ==
    /\ ops[o].pc = "data_add"
    /\ m_schemas_mutex = o
    /\ m_schemas' = add_schema_store(m_schemas, ops[o].adding)
    /\ m_schemas_mutex' = NoOwner
    /\ ops' = [ops EXCEPT ![o] =
                reader_func([ops[o] EXCEPT !.adding = NullPtr], ops[o].adding, body_ok)]
    /\ UNCHANGED <<m_latest_schema_version, codec>>

(***************************************************************************)
(* Specifications.                                                         *)
(***************************************************************************)
Next ==
    \/ get_async(OtherCaller, FALSE, NameRecord)
    \/ upsert_async(OtherCaller, FALSE, NameRecord)
    \/ \E o \in {MainCaller}, tx \in BOOLEAN, rec \in OpRecords :
        \/ get_async(o, tx, rec)
        \/ get_all_async(o, tx, rec)
        \/ upsert_async(o, tx, rec)
        \/ upsert_all_async(o, tx, rec)
        \/ get_and_upsert_async(o, tx, rec)
        \/ insert_async(o, tx, rec)
        \/ insert_all_async(o, tx, rec)
        \/ replace_async(o, tx, rec)
        \/ \E new_rec \in OpRecords : replace_exact_async(o, tx, rec, new_rec)
        \/ get_and_replace_async(o, tx, rec)
        \/ remove_async(o, tx, rec)
        \/ remove_exact_async(o, tx, rec)
        \/ get_and_remove_async(o, tx, rec)
        \/ remove_all_async(o, tx, rec)
        \/ remove_all_exact_async(o, tx, rec)
    \/ \E o \in Ops : Lookup(o)
    \/ \E o \in Ops : LoadFail(o)
    \/ \E o \in Ops, reply \in ReplyMaps : LoadReply(o, reply)
    \/ \E o \in Ops, wellformed \in BOOLEAN : LoadReadEntry(o, wellformed)
    \/ \E o \in Ops : LoadAddSchema(o)
    \/ \E o \in Ops : DataFail(o)
    \/ \E o \in Ops, ref \in Versions \cup {NullPtr}, body_ok \in BOOLEAN :
        DataReply(o, ref, body_ok)
    \/ \E o \in Ops, body_ok \in BOOLEAN : DataAddSchema(o, body_ok)

Spec == Init /\ [][Next]_vars

SpecCodec == SpecCodecInit /\ [][CodecNext]_vars

(***************************************************************************)
(* Properties of the pipeline, checked under Spec.                         *)
(***************************************************************************)
Terminated(op) == op.pc \in {"done", "thrown"}

SetMax(S) == CHOOSE x \in S : \A y \in S : y <= x

CachedVersions == {v \in Versions : m_schemas[v] # NoEntry}

\* C1: a public operation invoked with a non-null transaction handle issues no
\* request on the cluster connection, neither SCHEMAS_GET nor its data
\* opcode, whatever the schema cache holds.
C1_TxIssuesNoRequest ==
    \A o \in Ops :
        ops[o].tx =>
            /\ ops[o].schemas_get = 0
            /\ ops[o].data_rpc = 0
            /\ ops[o].opcode = "none"
            /\ ops[o].pc \in {"thrown"}

\* An operation was rejected for its transaction while the cache held a schema,
\* and another one while the cache was empty.
C1_Witness ==
    /\ ops[MainCaller].tx
    /\ ops[MainCaller].pc = "thrown"
    /\ ops[MainCaller].kind = "remove_all_exact"
    /\ m_latest_schema_version >= 0

\* C2: a public operation invoked with a non-null transaction handle invokes
\* the user callback, which receives the TransactionsUnsupported failure.
C2_TxCallbackGetsError ==
    \A o \in Ops :
        (ops[o].tx /\ ops[o].pc # "idle") =>
            /\ ops[o].callbacks = 1
            /\ ops[o].result = "TransactionsUnsupported"

\* C3: a public operation that has ended, whatever its outcome, has invoked
\* its user callback exactly once.
C3_SingleCompletion ==
    \A o \in Ops : Terminated(ops[o]) => ops[o].callbacks = 1

\* C4: an operation that starts on an empty cache issues SCHEMAS_GET first; it
\* issues no data request while the reply is outstanding or being decoded, its
\* data request follows the decoding of the whole reply and is built on the
\* schema the reply delivered, and a successful callback follows that one data
\* request.
C4_SchemaBeforeData ==
    \A o \in Ops :
        (ops[o].pc # "idle" /\ ~ops[o].tx /\ ops[o].snapshot < 0) =>
            /\ ops[o].schemas_get = 1
            /\ ops[o].pc \in {"schema_wait", "schema_read", "schema_add"} =>
                    ops[o].data_rpc = 0
            /\ ops[o].data_rpc > 0 =>
                    /\ ops[o].data_rpc = 1
                    /\ ops[o].reply = <<>>
                    /\ ops[o].last # NullPtr
                    /\ ops[o].sch = ops[o].last
                    /\ m_schemas[ops[o].last] = ops[o].last
            /\ (ops[o].pc = "done" /\ ops[o].result = "ok") =>
                    (ops[o].data_rpc = 1 /\ ops[o].callbacks = 1)

\* A get that missed the cache has completed with its result.
C4_Witness ==
    /\ ops[MainCaller].kind = "get"
    /\ ops[MainCaller].snapshot < 0
    /\ ops[MainCaller].schemas_get = 1
    /\ ops[MainCaller].data_rpc = 1
    /\ ops[MainCaller].pc = "done"
    /\ ops[MainCaller].result = "ok"
    /\ ops[MainCaller].value = "tuple"

\* The versions add_schema has been called with: those stored, and the one a
\* caller holding the mutex is storing.
InsertedVersions ==
    CachedVersions \cup {ops[o].adding : o \in {p \in Ops : ops[p].adding # NullPtr}}

\* C5: m_latest_schema_version is the maximum of the versions inserted so far
\* (-1 when there is none), and no step lowers it.
C5_LatestIsMax ==
    /\ [](m_latest_schema_version = SetMax(InsertedVersions \cup {-1}))
    /\ [][m_latest_schema_version' >= m_latest_schema_version]_vars

\* A stale load is inserting version 1 after version 2 was inserted.
C5_Witness ==
    /\ m_latest_schema_version = 2
    /\ m_schemas[2] = 2
    /\ m_schemas[1] = NoEntry
    /\ ops[OtherCaller].pc = "schema_add"
    /\ ops[OtherCaller].adding = 1

C7_FailedLoadLeavesCache ==
    \A o \in Ops :
        ( /\ ops[o].pc = "done"
          /\ ops[o].schemas_get = 1
          /\ ops[o].data_rpc = 0
          /\ ops[o].result \in {"Transport", "Protocol", "SchemaMissing"}
          /\ \A p \in Ops \ {o} : ops[p].pc = "idle" ) =>
            /\ \A v \in Versions : m_schemas[v] = NoEntry
            /\ m_latest_schema_version = -1

(***************************************************************************)
(* Properties of the tuple codec, checked under SpecCodec.                 *)
(***************************************************************************)
\* The record has a field of that name, compared without regard to case.
HasField(tuple, name) ==
    \E k \in 1..Len(tuple) : ToLower(tuple[k].name) = ToLower(name)

\* The value the record holds under the name, NoValue when it has no such field.
ValueAt(tuple, name) ==
    IF HasField(tuple, name)
    THEN (tuple[CHOOSE k \in 1..Len(tuple) :
                    /\ ToLower(tuple[k].name) = ToLower(name)
                    /\ \A j \in 1..(k - 1) : ToLower(tuple[j].name) # ToLower(name)]).value
    ELSE NoValue

\* Every field of the record is a column of the schema and holds a value of
\* the column's declared type.
TypesMatch(sch, rec) ==
    \A k \in 1..Len(rec) :
        \E i \in 1..Len(sch.columns) :
            /\ ToLower(sch.columns[i].name) = ToLower(rec[k].name)
            /\ sch.columns[i].type = rec[k].value.t

\* ... and the declared type is one the codec supports.
TypesSupported(sch, rec) ==
    \A k \in 1..Len(rec) :
        \E i \in 1..Len(sch.columns) :
            /\ ToLower(sch.columns[i].name) = ToLower(rec[k].name)
            /\ sch.columns[i].type = rec[k].value.t
            /\ sch.columns[i].type \in SupportedTypes

\* C8: after write_tuple, bit i of the no-value bitset (i below the count of
\* serialized columns) is set if and only if the record has no field named
\* like column i, and a field whose bit is set parses as absent, whatever the
\* buffer held before.
C8_NoValueBitset ==
    (codec.pc = "written" /\ IsOk(codec.out)) =>
        LET count == SchemaCount(codec.sch, codec.key_only)
            bits == codec.out.val[1].bitset.bits
            data == codec.out.val[2].data
        IN \A i \in 0..(count - 1) :
            /\ (i \in bits) <=> ~HasField(codec.rec, codec.sch.columns[i + 1].name)
            /\ (i \in bits) => data[i + 1].null

\* The record read back equals rec on the first count columns of the schema:
\* the column is a field of it, holding rec's value or the absent value.
RoundTrip(sch, rec, res, count) ==
    \A i \in 1..count :
        /\ HasField(res, sch.columns[i].name)
        /\ ValueAt(res, sch.columns[i].name) = ValueAt(rec, sch.columns[i].name)

\* C9 as stated: read_tuple applied to what write_tuple wrote succeeds and
\* yields the record, for every record whose values match the declared types.
C9_RoundTripOfWrittenBytes ==
    (codec.pc = "read_stream" /\ TypesMatch(codec.sch, codec.rec)) =>
        /\ IsOk(codec.res)
        /\ RoundTrip(codec.sch, codec.rec, codec.res.val.tuple,
                     SchemaCount(codec.sch, codec.key_only))

\* C9 amended: for a record over a subset of the schema's columns whose values
\* have the declared types, all of them supported, write_tuple succeeds, and
\* read_tuple applied to the binary tuple it wrote (the item after the no-value
\* bitset) with the same key_only yields the record on the serialized columns:
\* rec's value where rec has the column, the absent value where it has not.
C9_RoundTripOfBinaryTuple ==
    /\ (codec.pc = "written" /\ TypesSupported(codec.sch, codec.rec)) => IsOk(codec.out)
    /\ (codec.pc = "read_blob" /\ TypesSupported(codec.sch, codec.rec)) =>
            /\ IsOk(codec.res)
            /\ codec.res.val.reader = <<>>
            /\ RoundTrip(codec.sch, codec.rec, codec.res.val.tuple,
                         SchemaCount(codec.sch, codec.key_only))

\* A record of one field, an empty string spelled in upper case, was written
\* with all columns of a schema of two columns and read back.
C9_Witness ==
    /\ codec.pc = "read_blob"
    /\ ~codec.key_only
    /\ Len(codec.sch.columns) = 2
    /\ Len(codec.rec) = 1
    /\ codec.rec[1].value = Val("STRING", <<>>)
    /\ codec.rec[1].name # codec.sch.columns[2].name
    /\ TypesSupported(codec.sch, codec.rec)
    /\ IsOk(codec.res)

\* C10: the record read_tuple(reader, sch, key) returns has one field per
\* column of the schema; a key column holds what key.get(name) holds, whatever
\* the payload; value column i holds the field i - key_column_count of a parser
\* over columns.size() - key_column_count fields, decoded by its type; a key
\* that lacks a key column makes the read fail.
C10_MergeKeyBack ==
    codec.pc = "read_key" =>
        LET sch == codec.sch
            kc == sch.key_column_count
            n == Len(sch.columns)
        IN /\ IsOk(codec.res) =>
                /\ Len(codec.res.val.tuple) = n
                /\ \A i \in 1..kc :
                    /\ HasField(codec.rec, sch.columns[i].name)
                    /\ ValueAt(codec.res.val.tuple, sch.columns[i].name) =
                            ValueAt(codec.rec, sch.columns[i].name)
                /\ \A i \in (kc + 1)..n :
                    LET c == read_next_column(
                                [count |-> n - kc, data |-> codec.payload,
                                 pos |-> i - kc - 1],
                                sch.columns[i].type)
                    IN /\ IsOk(c)
                       /\ codec.res.val.tuple[i].name = sch.columns[i].name
                       /\ codec.res.val.tuple[i].value = c.val.value
           /\ (\E i \in 1..kc : ~HasField(codec.rec, sch.columns[i].name)) =>
                codec.res.err = "FieldNotFound"

\* A value column was read from the payload and the key column taken from the
\* key record, while the payload's field differs from the key.
C10_Witness ==
    /\ codec.pc = "read_key"
    /\ IsOk(codec.res)
    /\ codec.sch.key_column_count = 1
    /\ Len(codec.sch.columns) = 2
    /\ codec.sch.columns[2].type = "STRING"
    /\ codec.payload = <<Field(<<7>>)>>
    /\ codec.rec[1].value = Num("INT64", 42)
    /\ codec.res.val.tuple[2].value = Val("STRING", <<7>>)

(***************************************************************************)
(* Properties of the pipeline: order of events, request shapes, errors.    *)
(***************************************************************************)
\* The events of one operation, in the order of the pipeline.
EventOrder ==
    <<"schemas_get", "schemas_reply", "written", "sent", "get_schema", "read", "callback">>

EventRank(e) == CHOOSE k \in 1..Len(EventOrder) : EventOrder[k] = e

InOrder(trace) ==
    \A i \in 1..(Len(trace) - 1) : EventRank(trace[i]) < EventRank(trace[i + 1])

Happened(op, e) == \E k \in 1..Len(op.trace) : op.trace[k] = e

\* The request starts with the operation header (table id, nil, schema
\* version) and the items of the body follow it.
HeaderFirst(op) ==
    /\ Len(op.request) > 3
    /\ op.request[1] = [tag |-> "uuid", v |-> TableId]
    /\ op.request[2] = [tag |-> "nil"]
    /\ op.request[3] = [tag |-> "int32", v |-> op.sch]
    /\ \A k \in 4..Len(op.request) : op.request[k].tag \in {"int32", "bitset", "binary"}
    /\ \E k \in 4..Len(op.request) : op.request[k].tag = "binary"

\* C11: within one data operation the events occur in the order header
\* written, request body written, request sent, get_schema, response body
\* decoded, user callback: the request starts with the header, it is sent after
\* it was written, the reader resolves the schema reference before it decodes
\* tuples, and a successful callback of an operation with a reader follows the
\* return of the reader.
C11_FixedOrder ==
    \A o \in Ops :
        LET op == ops[o]
        IN /\ InOrder(op.trace)
           /\ Happened(op, "sent") => (Happened(op, "written") /\ HeaderFirst(op))
           /\ Happened(op, "get_schema") => Happened(op, "sent")
           /\ Happened(op, "read") =>
                /\ Happened(op, "sent")
                /\ ReaderOf(op.kind) \in {"tuple", "tuples_opt", "tuples"} =>
                        Happened(op, "get_schema")
           /\ (Happened(op, "callback") /\ op.result = "ok") =>
                /\ Happened(op, "sent")
                /\ ReaderOf(op.kind) # "void" => Happened(op, "read")

\* A get that missed the cache went through every event of the pipeline.
C11_Witness ==
    /\ ops[MainCaller].kind = "get"
    /\ ops[MainCaller].trace = EventOrder
    /\ ops[MainCaller].result = "ok"
    /\ ops[MainCaller].value = "tuple"

\* C12: every data request is built against the latest schema: when an
\* operation issues its data request, the version written in the operation
\* header, which is the version of the schema its tuples were packed with, is
\* the highest version the cache holds at that moment.
C12_BuiltOnLatest ==
    [][\A o \in Ops :
        (ops[o].data_rpc = 0 /\ ops'[o].data_rpc = 1) =>
            /\ ops'[o].request[3].v = SetMax(CachedVersions')
            /\ ops'[o].version = SetMax(CachedVersions')]_vars

\* The operation matrix: the opcode of each operation, the operations whose
\* request carries key columns only, and those whose request is a batch.
MatrixOpcode ==
    [kind \in OpKinds |->
        CASE kind = "get" -> "TUPLE_GET"
          [] kind = "get_all" -> "TUPLE_GET_ALL"
          [] kind = "upsert" -> "TUPLE_UPSERT"
          [] kind = "upsert_all" -> "TUPLE_UPSERT_ALL"
          [] kind = "get_and_upsert" -> "TUPLE_GET_AND_UPSERT"
          [] kind = "insert" -> "TUPLE_INSERT"
          [] kind = "insert_all" -> "TUPLE_INSERT_ALL"
          [] kind = "replace" -> "TUPLE_REPLACE"
          [] kind = "replace_exact" -> "TUPLE_REPLACE_EXACT"
          [] kind = "get_and_replace" -> "TUPLE_GET_AND_REPLACE"
          [] kind = "remove" -> "TUPLE_DELETE"
          [] kind = "remove_exact" -> "TUPLE_DELETE_EXACT"
          [] kind = "get_and_remove" -> "TUPLE_GET_AND_DELETE"
          [] kind = "remove_all" -> "TUPLE_DELETE_ALL"
          [] kind = "remove_all_exact" -> "TUPLE_DELETE_ALL_EXACT"]

MatrixKeyOnly == {"get", "get_all", "remove", "get_and_remove", "remove_all"}

MatrixBatch == {"get_all", "upsert_all", "insert_all", "remove_all", "remove_all_exact"}

\* The two items at positions k and k + 1 of the request are the tuple payload
\* of rec: a bitset and a binary tuple of one element per serialized column,
\* present exactly for the columns rec has a field for.
TuplePayloadAt(request, k, sch, rec, key_only) ==
    LET count == IF key_only THEN sch.key_column_count ELSE Len(sch.columns)
    IN /\ Len(request) >= k + 1
       /\ request[k].tag = "bitset"
       /\ request[k + 1].tag = "binary"
       /\ Len(request[k + 1].data) = count
       /\ \A i \in 1..count :
            /\ request[k + 1].data[i].null <=> ~HasField(rec, sch.columns[i].name)
            /\ (i - 1) \in request[k].bitset.bits <=> ~HasField(rec, sch.columns[i].name)

\* C13: each operation sends the opcode of the operation matrix, distinct from
\* the opcode of every other operation, and after the header the request shape
\* of the matrix: one tuple, a count and the tuples of the batch, or for
\* replace_exact the expected record and then the new record; with the key
\* columns only for get, get_all, remove, get_and_remove and remove_all and with
\* all columns for the others.
C13_OperationMatrix ==
    \A o \in Ops :
        ops[o].data_rpc > 0 =>
            LET op == ops[o]
                sch == TableSchema(op.sch)
                key_only == op.kind \in MatrixKeyOnly
            IN /\ op.opcode = MatrixOpcode[op.kind]
               /\ \A kind \in OpKinds \ {op.kind} : Opcode(kind) # op.opcode
               /\ IF op.kind \in MatrixBatch
                  THEN /\ Len(op.request) = 6
                       /\ op.request[4] = [tag |-> "int32", v |-> 1]
                       /\ TuplePayloadAt(op.request, 5, sch, op.rec, key_only)
                  ELSE IF op.kind = "replace_exact"
                  THEN /\ Len(op.request) = 7
                       /\ TuplePayloadAt(op.request, 4, sch, op.rec, FALSE)
                       /\ TuplePayloadAt(op.request, 6, sch, op.new_rec, FALSE)
                  ELSE /\ Len(op.request) = 5
                       /\ TuplePayloadAt(op.request, 4, sch, op.rec, key_only)

\* replace_exact sent the expected record {id, name} and then the new record
\* {id, d} under schema 1, which has no column d: the second tuple has no name.
C13_Witness ==
    /\ ops[MainCaller].kind = "replace_exact"
    /\ ops[MainCaller].pc = "data_wait"
    /\ ops[MainCaller].opcode = "TUPLE_REPLACE_EXACT"
    /\ ops[MainCaller].sch = 1
    /\ ops[MainCaller].rec = NameRecord
    /\ ops[MainCaller].new_rec = DecimalRecord
    /\ ~ops[MainCaller].request[5].data[2].null
    /\ ops[MainCaller].request[7].data[2].null
    /\ ops[OtherCaller].kind = "get"
    /\ ops[OtherCaller].pc = "data_wait"
    /\ Len(ops[OtherCaller].request[5].data) = 1

\* C14: when the SCHEMAS_GET request of an operation fails or its reply is an
\* empty map, the operation ends at once: its body is not run, it has issued
\* no data request, its callback is invoked once with that error (the
\* failure of the request, or SchemaMissing for the empty map), and it does
\* nothing after that.
C14_SchemaFailureSkipsBody ==
    /\ [][\A o \in Ops :
            (ops[o].pc = "schema_wait" /\ ops'[o].pc \notin {"schema_wait", "schema_read"}) =>
                /\ ops'[o].pc = "done"
                /\ ops'[o].callbacks = 1
                /\ ops'[o].result = IF Happened(ops'[o], "schemas_reply")
                                    THEN "SchemaMissing" ELSE "Transport"
                /\ ops'[o].data_rpc = 0
                /\ ops'[o].sch = NullPtr
                /\ ~Happened(ops'[o], "written")]_vars
    /\ [][\A o \in Ops : ops[o].pc = "done" => ops'[o] = ops[o]]_vars

\* One operation ended on a failed SCHEMAS_GET, the other on an empty map.
C14_Witness ==
    /\ ops[MainCaller].kind = "upsert"
    /\ ops[MainCaller].trace = <<"schemas_get", "callback">>
    /\ ops[MainCaller].result = "Transport"
    /\ ops[MainCaller].data_rpc = 0
    /\ ops[OtherCaller].trace = <<"schemas_get", "schemas_reply", "callback">>
    /\ ops[OtherCaller].result = "SchemaMissing"
    /\ ops[OtherCaller].data_rpc = 0

\* The SCHEMAS_GET reply of the operation had entries and its reader has read
\* and added every one of them.
LoadSucceeded(op) == Len(op.map) > 0 /\ op.reply = <<>>

\* C15: once the reader of a SCHEMAS_GET reply of n >= 1 entries has returned,
\* the cache holds a schema under the version of every entry of the reply, and
\* the callback was given the last entry in reply order: the body ran on it.
C15_AllInsertedLastDelivered ==
    \A o \in Ops :
        LoadSucceeded(ops[o]) =>
            /\ \A k \in 1..Len(ops[o].map) : m_schemas[ops[o].map[k]] = ops[o].map[k]
            /\ ops[o].pc \notin {"schema_wait", "schema_read", "schema_add", "null_deref"}
            /\ ops[o].last = ops[o].map[Len(ops[o].map)]
            /\ ops[o].sch = ops[o].map[Len(ops[o].map)]

\* A reply of two entries, version 2 first: both are cached and the body ran on
\* version 1.
C15_Witness ==
    /\ ops[MainCaller].map = <<2, 1>>
    /\ LoadSucceeded(ops[MainCaller])
    /\ ops[MainCaller].sch = 1
    /\ ops[MainCaller].pc = "data_wait"
    /\ CachedVersions = {1, 2}

\* C16: when the SCHEMAS_GET reply is an empty map the load fails with
\* SchemaMissing, which the callback receives; the step inserts nothing into
\* the cache and leaves the latest version as it was, so that a table whose
\* operations have added no schema still has an empty cache and latest
\* version -1.
C16_EmptyMapIsSchemaMissing ==
    /\ [][\A o \in Ops :
            (/\ ~Happened(ops[o], "schemas_reply")
             /\ Happened(ops'[o], "schemas_reply")
             /\ ops'[o].map = <<>>) =>
                /\ ops'[o].pc = "done"
                /\ ops'[o].result = "SchemaMissing"
                /\ ops'[o].callbacks = 1
                /\ m_schemas' = m_schemas
                /\ m_latest_schema_version' = m_latest_schema_version]_vars
    /\ []((\A o \in Ops : /\ ops[o].last = NullPtr
                          /\ ops[o].adding = NullPtr
                          /\ ~Happened(ops[o], "get_schema")) =>
            (m_latest_schema_version = -1 /\ CachedVersions = {}))

\* Both operations got an empty map: the cache is empty, the latest version -1.
C16_Witness ==
    /\ \A o \in Ops :
        /\ ops[o].result = "SchemaMissing"
        /\ ops[o].trace = <<"schemas_get", "schemas_reply", "callback">>
        /\ ops[o].callbacks = 1
    /\ m_latest_schema_version = -1
    /\ CachedVersions = {}

\* C17: an operation called while the latest version is >= 0 takes it as its
\* snapshot, issues no SCHEMAS_GET and never waits for the connection before
\* its callback: the lookup under the mutex and the callback with the schema
\* cached under the snapshot, which runs the body, are one step of the calling
\* thread.  An operation issues SCHEMAS_GET only on a negative snapshot.
C17_CacheHitIsSynchronous ==
    /\ [](\A o \in Ops :
            /\ (ops[o].pc # "idle" /\ ~ops[o].tx /\ ops[o].snapshot >= 0) =>
                    /\ ops[o].schemas_get = 0
                    /\ ~Happened(ops[o], "schemas_get")
                    /\ ops[o].pc \in {"lookup", "data_wait", "data_add", "done"}
                    /\ ops[o].pc # "lookup" =>
                            /\ ops[o].sch = ops[o].snapshot
                            /\ m_schemas[ops[o].snapshot] = ops[o].snapshot
            /\ ops[o].schemas_get > 0 => ops[o].snapshot < 0)
    /\ [][\A o \in Ops :
            /\ (ops[o].pc = "idle" /\ ops'[o].pc # "idle" /\ ~ops'[o].tx) =>
                    /\ ops'[o].snapshot = m_latest_schema_version
                    /\ ops'[o].pc = IF m_latest_schema_version >= 0 THEN "lookup"
                                    ELSE "schema_wait"
            /\ (ops[o].pc = "lookup" /\ ops'[o].pc # "lookup") =>
                    /\ ops'[o].pc \in {"data_wait", "done"}
                    /\ ops'[o].sch = ops[o].snapshot]_vars

\* An upsert called on a cache holding version 1 has sent its request on
\* schema 1 with no SCHEMAS_GET; the other operation had loaded the schema.
C17_Witness ==
    /\ ops[MainCaller].kind = "upsert"
    /\ ops[MainCaller].snapshot = 1
    /\ ops[MainCaller].trace = <<"written", "sent">>
    /\ ops[MainCaller].sch = 1
    /\ ops[MainCaller].schemas_get = 0
    /\ ops[OtherCaller].schemas_get = 1
    /\ ops[OtherCaller].snapshot = -1

\* C18: nothing is retried: an operation issues at most one SCHEMAS_GET and at
\* most one data request; the step in which it fails (schema load, writer,
\* connection, reader) issues no request and invokes the callback with the
\* error, once; and an operation that has ended takes no further step.
C18_NoRetry ==
    /\ [](\A o \in Ops :
            /\ ops[o].schemas_get <= 1
            /\ ops[o].data_rpc <= 1
            /\ ops[o].result \notin {"none", "ok"} =>
                    /\ ops[o].pc = "done"
                    /\ ops[o].callbacks = 1
                    /\ ops[o].trace[Len(ops[o].trace)] = "callback")
    /\ [][\A o \in Ops :
            /\ (ops[o].result = "none" /\ ops'[o].result \notin {"none", "ok"}) =>
                    /\ ops'[o].schemas_get = ops[o].schemas_get
                    /\ ops'[o].data_rpc = ops[o].data_rpc
            /\ ops[o].pc \in {"done", "thrown"} => ops'[o] = ops[o]]_vars

\* One operation failed in its writer before anything was sent, the other in
\* its reader after its one data request.
C18_Witness ==
    /\ ops[MainCaller].result = "TypeUnsupported"
    /\ ops[MainCaller].data_rpc = 0
    /\ ops[MainCaller].schemas_get = 1
    /\ ops[MainCaller].pc = "done"
    /\ ops[OtherCaller].result = "Protocol"
    /\ ops[OtherCaller].data_rpc = 1
    /\ Happened(ops[OtherCaller], "get_schema")
    /\ ops[OtherCaller].pc = "done"

(***************************************************************************)
(* Unsupported column types, checked under SpecCodec.                      *)
(***************************************************************************)
\* Column i is among the first count columns and its type is not supported.
UnsupportedColumn(sch, i, count) ==
    i \in 1..count /\ sch.columns[i].type \notin SupportedTypes

\* C19 as stated: whenever a column that write_tuple serializes has a type
\* outside the supported set, write_tuple fails with TypeUnsupported (the
\* values of the record having the declared types), and whenever a value column
\* of the response has such a type, read_tuple fails with it.
C19_UnsupportedColumnFails ==
    /\ (codec.pc = "written" /\ TypesMatch(codec.sch, codec.rec)) =>
            ((\E i \in 1..Len(codec.sch.columns) :
                UnsupportedColumn(codec.sch, i, SchemaCount(codec.sch, codec.key_only)))
             => codec.out.err = "TypeUnsupported")
    /\ (codec.pc = "read_key" /\ Len(codec.payload) =
                Len(codec.sch.columns) - codec.sch.key_column_count) =>
            ((\E i \in (codec.sch.key_column_count + 1)..Len(codec.sch.columns) :
                UnsupportedColumn(codec.sch, i, Len(codec.sch.columns)))
             => codec.res.err \in {"TypeUnsupported", "FieldNotFound", "Protocol"})

\* C19: write_tuple fails with TypeUnsupported, and writes nothing, when the
\* record holds a value for a serialized column of an unsupported type (the
\* values having the declared types), and only then; a serialized column of
\* such a type that the record has no field for is written as an absent
\* element.  read_tuple fails with TypeUnsupported when the element of such a
\* column is present in the response, and only then; an absent element of such
\* a column is read as no value.
C19_UnsupportedValueFails ==
    /\ codec.pc = "written" =>
        LET sch == codec.sch
            count == SchemaCount(sch, codec.key_only)
            hit == \E i \in 1..Len(sch.columns) :
                        /\ UnsupportedColumn(sch, i, count)
                        /\ HasField(codec.rec, sch.columns[i].name)
        IN /\ (hit /\ TypesMatch(sch, codec.rec)) =>
                    (codec.out.err = "TypeUnsupported" /\ codec.out.val = <<>>
                     /\ codec.packed.err = "TypeUnsupported")
           /\ codec.out.err = "TypeUnsupported" => hit
           /\ (~hit /\ TypesMatch(sch, codec.rec)) =>
                    /\ IsOk(codec.out)
                    /\ \A i \in 1..count :
                            UnsupportedColumn(sch, i, count) =>
                                codec.out.val[2].data[i] = NullOpt
    /\ codec.pc = "read_key" =>
        LET sch == codec.sch
            kc == sch.key_column_count
            n == Len(sch.columns)
            present(i) == /\ i - kc <= Len(codec.payload)
                          /\ ~codec.payload[i - kc].null
        IN /\ IsOk(codec.res) =>
                \A i \in (kc + 1)..n :
                    UnsupportedColumn(sch, i, n) =>
                        (~present(i) /\ codec.res.val.tuple[i].value = NoValue)
           /\ codec.res.err = "TypeUnsupported" =>
                \E i \in (kc + 1)..n : UnsupportedColumn(sch, i, n) /\ present(i)
           /\ (/\ kc + 1 <= n
               /\ UnsupportedColumn(sch, kc + 1, n)
               /\ present(kc + 1)
               /\ \A i \in 1..kc : HasField(codec.rec, sch.columns[i].name)) =>
                    codec.res.err = "TypeUnsupported"
    /\ codec.pc = "read_blob" =>
        (IsOk(codec.res) /\ codec.res.err # "TypeUnsupported")

\* write_tuple failed on a record {id, d} for a schema whose column d is a
\* DECIMAL.
C19_Witness ==
    /\ codec.pc = "written"
    /\ ~codec.key_only
    /\ Len(codec.sch.columns) = 2
    /\ codec.sch.columns[1].type = "INT64"
    /\ codec.sch.columns[2].type = "DECIMAL"
    /\ Len(codec.rec) = 2
    /\ TypesMatch(codec.sch, codec.rec)
    /\ codec.out.err = "TypeUnsupported"

(***************************************************************************)
(* Concurrent loads, checked under Spec.                                   *)
(***************************************************************************)
Range(s) == {s[k] : k \in 1..Len(s)}

\* Both operations observed latest version -1, each issued its own
\* SCHEMAS_GET, both got the same reply and both readers have returned; no
\* schema has been learned from a data response.
BothLoaded ==
    \A o \in Ops :
        /\ ops[o].pc # "idle"
        /\ ~ops[o].tx
        /\ ops[o].snapshot < 0
        /\ LoadSucceeded(ops[o])
        /\ ops[o].map = ops[MainCaller].map
        /\ ops[o].adding = NullPtr
        /\ ~Happened(ops[o], "get_schema")

\* C20: when both operations observed latest version -1 and each loaded the
\* same reply, then in whatever order the steps of the two loads were taken the
\* cache holds exactly the versions of the reply and the latest version is
\* their maximum, as after one load; each operation issued one SCHEMAS_GET and
\* went on to its body with the last entry of the reply, which sent its one data
\* request (unless its writer failed on an unsupported type), and an operation
\* that has ended has invoked its callback once.
C20_ConcurrentLoadsIdempotent ==
    BothLoaded =>
        LET map == ops[MainCaller].map
        IN /\ CachedVersions = Range(map)
           /\ m_latest_schema_version = SetMax(Range(map))
           /\ m_schemas_mutex = NoOwner
           /\ \A o \in Ops :
                /\ ops[o].schemas_get = 1
                /\ ops[o].sch = map[Len(map)]
                /\ \/ ops[o].data_rpc = 1 /\ ops[o].pc \in {"data_wait", "done"}
                   \/ /\ ops[o].data_rpc = 0
                      /\ ops[o].pc = "done"
                      /\ ops[o].result = "TypeUnsupported"
                /\ ops[o].pc = "done" => ops[o].callbacks = 1

\* Both operations loaded the reply (2, 1) and both have their data request
\* outstanding.
C20_Witness ==
    /\ BothLoaded
    /\ ops[MainCaller].map = <<2, 1>>
    /\ \A o \in Ops : ops[o].pc = "data_wait" /\ ops[o].data_rpc = 1
    /\ CachedVersions = {1, 2}
    /\ m_latest_schema_version = 2

(***************************************************************************)
(* The callback is fired at most once, checked under Spec.                 *)
(***************************************************************************)
CallbackEvents(op) == {k \in 1..Len(op.trace) : op.trace[k] = "callback"}

\* C21: in every state, whatever the interleaving of the two operations and
\* on every error path, an operation has invoked its user callback at most
\* once: the invocation is the last thing the operation did, an operation
\* whose callback got a failure of the schema load has issued no data request
\* (so the data step never invokes it again), and one invocation carries one
\* outcome, a failure or a value.
C21_CallbackAtMostOnce ==
    \A o \in Ops :
        LET op == ops[o]
        IN /\ op.callbacks \in {0, 1}
           /\ Cardinality(CallbackEvents(op)) = op.callbacks
           /\ op.callbacks = 0 => (op.result = "none" /\ op.value = "none")
           /\ op.callbacks = 1 =>
                /\ op.pc = "done"
                /\ op.trace[Len(op.trace)] = "callback"
                /\ op.result # "none"
                /\ op.result # "ok" => op.value = "none"
                /\ op.result = "ok" => (op.value # "none" /\ op.data_rpc = 1)
                /\ op.result \in {"SchemaMissing", "Protocol"} /\ op.data_rpc = 0 =>
                        ~Happened(op, "sent")

\* Both operations loaded the schema and sent their request; one callback got
\* the tuple, the other the failure of the connection, each once.
C21_Witness ==
    /\ \A o \in Ops : ops[o].schemas_get = 1 /\ ops[o].data_rpc = 1 /\ ops[o].callbacks = 1
    /\ ops[MainCaller].kind = "get"
    /\ ops[MainCaller].result = "ok"
    /\ ops[MainCaller].value = "tuple"
    /\ ops[OtherCaller].result = "Transport"

(***************************************************************************)
(* Values of zero bytes, checked under SpecCodec.                          *)
(***************************************************************************)
\* Serialized column i of the record holds an empty STRING or an empty BINARY.
EmptyValueAt(sch, rec, i) ==
    /\ HasField(rec, sch.columns[i].name)
    /\ ValueAt(rec, sch.columns[i].name) \in {Val("STRING", <<>>), Val("BINARY", <<>>)}

\* C22: a field the record holds with a value of zero bytes (an empty STRING or
\* an empty BINARY) is not treated as absent: after pack_tuple its no-value bit
\* is clear and its element of the tuple is present, and read_tuple on the
\* tuple yields the empty value for the column, not the absent value.
C22_EmptyValueIsPresent ==
    \A i \in 1..SchemaCount(codec.sch, codec.key_only) :
        EmptyValueAt(codec.sch, codec.rec, i) =>
            /\ (codec.pc = "written" /\ IsOk(codec.packed)) =>
                    /\ (i - 1) \notin codec.packed.val.no_value.bits
                    /\ (i - 1) \notin codec.out.val[1].bitset.bits
                    /\ codec.packed.val.data[i] = Field(<<>>)
            /\ (codec.pc = "read_blob" /\ IsOk(codec.res)) =>
                    /\ ValueAt(codec.res.val.tuple, codec.sch.columns[i].name) =
                            ValueAt(codec.rec, codec.sch.columns[i].name)
                    /\ ValueAt(codec.res.val.tuple, codec.sch.columns[i].name) # NoValue

(***************************************************************************)
(* Batches: write_tuples, read_tuples_opt, read_tuples, checked under      *)
(* SpecCodec.                                                              *)
(***************************************************************************)
\* The tuple of one entry of a response, parsed on its own.
ParseEntry(entry, sch, key_only) ==
    read_tuple(<<[tag |-> "binary", data |-> entry.data]>>, sch, key_only)

\* The entries after the first n.
EntriesAfter(entries, n) == SubSeq(entries, n + 1, Len(entries))

\* C23: read_tuples_opt reads the int32 count and returns exactly count
\* entries in response order, entry k being none if and only if the k-th flag
\* read is false and otherwise the tuple parsed right after that flag;
\* read_tuples reads the count and parses count tuples with no flag; both leave
\* what follows the count entries unread and fail when an entry cannot be
\* read.  write_tuples writes the int32 number of records and then, for each
\* record in order, the payload write_tuple writes for it with the same
\* key_only.
C23_BatchCodecs ==
    /\ codec.pc = "read_tuples_opt" =>
        LET n == codec.count
            es == codec.entries
        IN /\ IsOk(codec.res) <=>
                /\ n <= Len(es)
                /\ \A k \in 1..n :
                    es[k].exists => IsOk(ParseEntry(es[k], codec.sch, codec.key_only))
           /\ IsOk(codec.res) =>
                /\ Len(codec.res.val.tuples) = n
                /\ \A k \in 1..n :
                    /\ codec.res.val.tuples[k] = NoTuple <=> ~es[k].exists
                    /\ es[k].exists =>
                        codec.res.val.tuples[k] =
                            ParseEntry(es[k], codec.sch, codec.key_only).val.tuple
                /\ codec.res.val.reader = EntryItems(EntriesAfter(es, n), TRUE)
    /\ codec.pc = "read_tuples" =>
        LET n == codec.count
            es == codec.entries
        IN /\ IsOk(codec.res) <=>
                /\ n <= Len(es)
                /\ \A k \in 1..n : IsOk(ParseEntry(es[k], codec.sch, codec.key_only))
           /\ IsOk(codec.res) =>
                /\ Len(codec.res.val.tuples) = n
                /\ \A k \in 1..n :
                    codec.res.val.tuples[k] =
                        ParseEntry(es[k], codec.sch, codec.key_only).val.tuple
                /\ codec.res.val.reader = EntryItems(EntriesAfter(es, n), FALSE)
    /\ codec.pc = "written_tuples" =>
        LET ts == codec.tuples
            one(k) == write_tuple(<<>>, codec.sch, ts[k], codec.key_only, codec.stack)
        IN /\ IsOk(codec.out) <=> \A k \in 1..Len(ts) : IsOk(one(k))
           /\ IsOk(codec.out) =>
                /\ Len(codec.out.val) = 1 + 2 * Len(ts)
                /\ codec.out.val[1] = [tag |-> "int32", v |-> Len(ts)]
                /\ \A k \in 1..Len(ts) :
                    /\ <<codec.out.val[2 * k], codec.out.val[2 * k + 1]>> = one(k).val
                    /\ Len(codec.out.val[2 * k + 1].data) =
                            SchemaCount(codec.sch, codec.key_only)

\* read_tuples_opt returned two entries of a response of count 2: none for the
\* false flag, then the tuple after the true flag.
C23_Witness ==
    /\ codec.pc = "read_tuples_opt"
    /\ codec.count = 2
    /\ Len(codec.entries) = 2
    /\ ~codec.entries[1].exists
    /\ codec.entries[2].exists
    /\ IsOk(codec.res)
    /\ codec.res.val.tuples[1] = NoTuple
    /\ Len(codec.res.val.tuples[2]) = 2
    /\ codec.res.val.tuples[2][2].value = Val("STRING", <<7>>)

(***************************************************************************)
(* The size of the record read_tuple returns, checked under SpecCodec.     *)
(***************************************************************************)
\* C24: the record read_tuple(reader, sch, key_only) returns has one field per
\* column of the schema, also when key_only is true: the first count columns
\* (key_column_count when key_only) hold what the parser yields for them, the
\* absent value when the element is absent, and the columns after them are
\* fields of the record as well, holding the absent value.
C24_RecordCoversAllColumns ==
    (codec.pc = "read_blob" /\ IsOk(codec.res)) =>
        LET sch == codec.sch
            count == SchemaCount(sch, codec.key_only)
            res == codec.res.val.tuple
            data == codec.out.val[2].data
        IN /\ Len(res) = Len(sch.columns)
           /\ \A i \in 1..Len(sch.columns) : HasField(res, sch.columns[i].name)
           /\ \A i \in 1..count :
                ValueAt(res, sch.columns[i].name) =
                    read_next_column([count |-> count, data |-> data, pos |-> i - 1],
                                     sch.columns[i].type).val.value
           /\ \A i \in (count + 1)..Len(sch.columns) :
                ValueAt(res, sch.columns[i].name) = NoValue

C26_NullSchemaReadsNothing ==
    (codec.pc = "reader_func" /\ codec.resolved = NullSchema) =>
        /\ IsOk(codec.res)
        /\ codec.res.val.reader = ResponseOf(codec.kind, codec.count, codec.entries)
        /\ IF codec.kind \in {"get", "get_and_upsert", "get_and_replace", "get_and_remove"}
           THEN codec.res.val.tuple = NoTuple
           ELSE codec.res.val.tuples = <<>>

\* remove_all got a response of two tuples with a schema reference that
\* resolved to no schema: it returned the empty list and read nothing.
C26_Witness ==
    /\ codec.pc = "reader_func"
    /\ codec.resolved = NullSchema
    /\ codec.kind = "remove_all"
    /\ codec.count = 2
    /\ Len(codec.entries) = 2
    /\ codec.entries[1].exists /\ codec.entries[2].exists
    /\ IsOk(codec.res)
    /\ codec.res.val.tuples = <<>>
    /\ Len(codec.res.val.reader) = 3

====
